---- MODULE Spec2Model ----
(***************************************************************************)
(* Model of the STEP extractor: assembly traversal, shape analysis, flat    *)
(* part listing, colour extraction (src/core/assembly_extractor.py,        *)
(* src/core/color_extractor.py, src/core/geometry_analyzer.py), the kernel *)
(* coordinator and the multi-file run (src/core/opencascade_processor.py,  *)
(* src/extractors/main_extractor.py, src/main.py), and the FreeCAD part    *)
(* lister (src/bom_extraction.py).                                         *)
(*                                                                         *)
(* The CAD kernel is an opaque collaborator.  Its document is the kernel   *)
(* state below (label hierarchy, free shapes, shapes, colours,             *)
(* attributes); `raises` is the set of kernel calls, each identified by    *)
(* the label it is made for and the call site, that raise an exception.    *)
(* Python dicts are functions with string domains, Python lists are        *)
(* sequences, str(e) of an exception is the name of the call that raised.  *)
(* Floats are integers: colour components are thousandths (0..1000),       *)
(* lengths are even integers so that halving is exact.                     *)
(*                                                                         *)
(* str(label) is taken to identify the label.  Handle checks (IsNull,      *)
(* Length, Value) do not raise; a raise of GetShape stands for any raise   *)
(* of lines 110-111.  The role-less GetColor(label, color) of the two      *)
(* _extract_label_color helpers is a kernel answer of its own              *)
(* (labelColor): it may find nothing for a label that has colours          *)
(* assigned per role, and finds a colour only for a label that has one.    *)
(*                                                                         *)
(* Init draws the document from families that each vary one aspect:        *)
(* hierarchies and walker failures (InitWalk), colours and helper          *)
(* failures (InitColor), one shape and analyzer failures (InitAnalyzer),   *)
(* roots and lister failures (InitParts), FreeCAD objects (InitBom), and   *)
(* the files of a run with the coordinator's failures (InitRun).           *)
(***************************************************************************)
EXTENDS Integers, Sequences, FiniteSets, TLC

\* ---------------------------------------------------------------- bounds
MaxLabels == 3
MaxFailures == 1
ColorSteps == 2

Labels == 1..MaxLabels

VARIABLES
    comps,          \* kernel: label -> sequence of component labels (GetComponents)
    free,           \* kernel: sequence of free (root) labels (GetFreeShapes)
    simple,         \* kernel: label -> IsSimpleShape(label)
    nullShape,      \* kernel: label -> GetShape(label).IsNull()
    bboxVoid,       \* kernel: label -> bounding box of the label's shape IsVoid()
    roleColor,      \* kernel: label -> role -> colour assigned under that role, or NoColor
    labelColor,     \* kernel: label -> colour the role-less GetColor(label, color) yields, or NoColor
    nameAttr,       \* kernel: label -> TDataStd_Name attribute ("" when the name is empty), or NoAttr
    commentAttr,    \* kernel: label -> TDataStd_Comment attribute, or NoAttr
    raises,         \* kernel: set of <<label, call>> that raise when made
    hashSeed,       \* runtime: the interpreter's string hash seed
    objects,        \* FreeCAD: doc.Objects after Part.insert, each object by its kind
    binding,        \* runtime: the OCC kernel binding can be imported
    opencascade_available,  \* OpenCASCADEProcessor.opencascade_available after __init__
    files,          \* main: the STEP files found, each "ok" or "unreadable" for the kernel
    next_file,      \* main: position of the loop over the files
    doc_files,      \* OpenCASCADEProcessor.doc: the files whose transfer it has received
    main_raised,    \* main: an exception left the loop over the files
    errors,         \* MainExtractor.extraction_stats["errors"]
    results,        \* main: outcome of extract_all_stp_data for each file processed
    assembly_tree,  \* result of the last extract_assembly_tree
    analysis,       \* result of the last direct _analyze_shape_comprehensive
    color_data,     \* result of the last ColorExtractor.extract_all_colors
    parts_data,     \* result of the last AssemblyExtractor.extract_all_parts
    bom_data,       \* outcome of the last run of the bom_extraction.py script
    tree_again      \* result of extract_assembly_tree when the walk is run again

kernelVars == <<comps, free, simple, nullShape, bboxVoid, roleColor, labelColor,
                nameAttr, commentAttr, raises, hashSeed, objects>>
runVars == <<binding, opencascade_available, files, next_file, doc_files, main_raised,
             errors, results>>
vars == <<comps, free, simple, nullShape, bboxVoid, roleColor, labelColor,
          nameAttr, commentAttr, raises, hashSeed, objects,
          binding, opencascade_available, files, next_file, doc_files, main_raised,
          errors, results,
          assembly_tree, analysis, color_data, parts_data, bom_data, tree_again>>

\* ------------------------------------------------------- kernel vocabulary
NoColor == <<>>
NoAttr == <<>>
EmptyDict == <<>>
NoResult == [done |-> FALSE]

Roles == <<"general", "surface", "curve">>

topology_types ==
    <<"vertices", "edges", "faces", "solids", "shells", "wires", "compounds">>

\* Call sites of _process_assembly_node that reach the kernel (lines 101, 110,
\* 121, 124), and those of the helpers it calls and of the colour extractor.
WalkerCalls == {"IsSimpleShape_101", "GetShape", "IsSimpleShape_121", "GetComponents"}

HelperCalls ==
    {"FindAttribute_Name", "GetColor", "FindAttribute_Comment", "GetColor_role", "IsSet"}

\* Call sites of _analyze_shape_comprehensive that reach the kernel; an
\* explorer of one topology kind is named by the kind's key.
\* Call sites of extract_all_parts that reach the kernel (lines 59, 74, 78).
PartsCalls == {"IsSimpleShape_74", "GetShape_78"}

\* Accesses of a FreeCAD object in bom_extraction.py that may raise: the shape
\* test of line 34 (outside the per-object try), the solids count of line 89
\* (inside the topology try of line 85) and the label read of line 96.
BomCalls == {"Shape_34", "Solids_89", "Label_96"}

AnalyzerCalls ==
    {"ShapeType", "vertices", "edges", "faces", "solids", "shells", "wires",
     "compounds", "VolumeProperties", "SurfaceProperties", "BRepBndLib_Add"}

Raises(label, call) == <<label, call>> \in raises

\* ------------------------------------------------ kernel answers for shapes
\* What the kernel computes for the shape of a label (opaque to the program).
\* str(int(shape.ShapeType())): the kernel's TopAbs_ShapeEnum code as a string.
ShapeTypeCode(label) == <<"0", "1", "2", "3", "4", "5", "6", "7">>[(label % 8) + 1]

ExplorerCount(label, key) ==
    CASE key = "vertices" -> 8 * label
      [] key = "edges" -> 12 * label
      [] key = "faces" -> 6 * label
      [] key = "solids" -> label - 1
      [] key = "shells" -> label
      [] key = "wires" -> 6 * label
      [] OTHER -> 0

VolumeMass(label) == 100 * label
CentreOfMass(label) == <<2 * label, 4 * label, 6 * label>>
SurfaceMass(label) == 60 * label
BndBoxGet(label) == <<0, 2, 4, 2 * label, 2 + 4 * label, 4 + 6 * label>>

\* ------------------------------------------------------------ Shape Analyzer
RECURSIVE TopologyLoop(_, _, _, _)
\* lines 175-181: count each topology kind in order; an explorer that raises
\* leaves the kinds counted so far in the dict and propagates.
TopologyLoop(label, i, topo, made) ==
    IF i > Len(topology_types)
    THEN [raised |-> FALSE, topology |-> topo, calls |-> made, exc |-> ""]
    ELSE LET key == topology_types[i] IN
         IF Raises(label, key)
         THEN [raised |-> TRUE, topology |-> topo,
               calls |-> made \cup {key}, exc |-> key]
         ELSE TopologyLoop(label, i + 1,
                           topo @@ (key :> ExplorerCount(label, key)),
                           made \cup {key})

\* lines 184-204: volume and surface area share one try block.
GeometryBlock(label) ==
    IF Raises(label, "VolumeProperties")
    THEN [value |-> [calculation_failed |-> "VolumeProperties"],
          calls |-> {"VolumeProperties"}]
    ELSE IF Raises(label, "SurfaceProperties")
    THEN [value |-> [calculation_failed |-> "SurfaceProperties"],
          calls |-> {"VolumeProperties", "SurfaceProperties"}]
    ELSE [value |-> [volume |-> VolumeMass(label),
                     center_of_mass |-> CentreOfMass(label),
                     has_inertia_data |-> TRUE,
                     surface_area |-> SurfaceMass(label)],
          calls |-> {"VolumeProperties", "SurfaceProperties"}]

\* lines 207-223
BoundingBlock(label) ==
    IF Raises(label, "BRepBndLib_Add")
    THEN [calculation_failed |-> "BRepBndLib_Add"]
    ELSE IF bboxVoid[label]
    THEN [void_bounding_box |-> TRUE]
    ELSE LET b == BndBoxGet(label) IN
         [min_point |-> <<b[1], b[2], b[3]>>,
          max_point |-> <<b[4], b[5], b[6]>>,
          dimensions |-> <<b[4] - b[1], b[5] - b[2], b[6] - b[3]>>,
          center |-> <<(b[1] + b[4]) \div 2, (b[2] + b[5]) \div 2,
                       (b[3] + b[6]) \div 2>>]

\* lines 137-143
InitialAnalysis ==
    [topology |-> EmptyDict, geometry_properties |-> EmptyDict,
     bounding_info |-> EmptyDict, shape_type |-> "unknown", is_valid |-> TRUE]

\* lines 152-226: the analysis of a shape that is not null.
AnalyzeNonNull(label) ==
    IF Raises(label, "ShapeType")
    THEN [analysis |-> InitialAnalysis @@ ("analysis_error" :> "ShapeType"),
          calls |-> {"ShapeType"}]
    ELSE LET typed == [InitialAnalysis EXCEPT !.shape_type = ShapeTypeCode(label)]
             topo == TopologyLoop(label, 1, EmptyDict, {"ShapeType"})
         IN  IF topo.raised
             THEN [analysis |-> [typed EXCEPT !.topology = topo.topology]
                                @@ ("analysis_error" :> topo.exc),
                   calls |-> topo.calls]
             ELSE LET geo == GeometryBlock(label) IN
                  [analysis |-> [typed EXCEPT !.topology = topo.topology,
                                              !.geometry_properties = geo.value,
                                              !.bounding_info = BoundingBlock(label)],
                   calls |-> topo.calls \cup geo.calls \cup {"BRepBndLib_Add"}]

\* A plausible slip: the null check of lines 147-150 left out.
AnalyzerRunUnchecked(label) == AnalyzeNonNull(label)

\* One run of _analyze_shape_comprehensive (lines 135-228) on the shape of
\* `label`: `analysis` is the returned dict, `calls` the kernel calls made.
AnalyzerRun(label) ==
    IF nullShape[label]
    THEN [analysis |-> [InitialAnalysis EXCEPT !.is_valid = FALSE]
                       @@ ("analysis_error" :> "Shape is null/invalid"),
          calls |-> {}]
    ELSE AnalyzeNonNull(label)

_analyze_shape_comprehensive(label) == AnalyzerRun(label).analysis

\* ------------------------------------------------------------- label helpers
\* abs(hash(str(label))) % 10000 is fixed within a run; hashSeed stands for the
\* interpreter's per-process string hash seed.
FallbackName(label) ==
    <<"Part_0", "Part_1", "Part_2", "Part_3", "Part_4", "Part_5">>[((label + hashSeed) % 6) + 1]

\* A plausible slip: the name attribute ignored, every name synthesized.
LabelNameAlwaysSynthesized(label) == FallbackName(label)

\* lines 231-250: every failure ends in the synthesized fallback name.
_extract_label_name(label) ==
    IF Raises(label, "FindAttribute_Name") THEN FallbackName(label)
    ELSE IF nameAttr[label] = NoAttr THEN FallbackName(label)
    ELSE IF nameAttr[label][1] = "" THEN FallbackName(label)
    ELSE nameAttr[label][1]

HexDigit(d) ==
    <<"0", "1", "2", "3", "4", "5", "6", "7", "8", "9", "a", "b", "c", "d", "e", "f">>[d + 1]

RECURSIVE HexDigits(_)
HexDigits(n) == IF n < 16 THEN <<HexDigit(n)>> ELSE Append(HexDigits(n \div 16), HexDigit(n % 16))

\* f"{n:02x}" for n >= 0: lowercase hex digits, zero-padded to width 2.
Format02x(n) == IF n < 16 THEN <<"0", HexDigit(n)>> ELSE HexDigits(n)

\* int(component * 255) for a component given in thousandths: truncation.
Channel255(c) == (c * 255) \div 1000

\* f"#{int(r*255):02x}{int(g*255):02x}{int(b*255):02x}" as a sequence of characters.
HexString(rgb) ==
    <<"#">> \o Format02x(Channel255(rgb[1])) \o Format02x(Channel255(rgb[2]))
            \o Format02x(Channel255(rgb[3]))

\* A plausible slip: a raise of the lookup reported as a label without colour.
LabelColorErrorAsAbsent(label) ==
    IF ~Raises(label, "GetColor") /\ labelColor[label] # NoColor
    THEN [has_color |-> TRUE, rgb |-> labelColor[label], hex |-> HexString(labelColor[label])]
    ELSE [has_color |-> FALSE]

\* AssemblyExtractor._extract_label_color, lines 252-266: one role-less lookup.
_extract_label_color(label) ==
    IF Raises(label, "GetColor") THEN [color_extraction_error |-> TRUE]
    ELSE IF labelColor[label] # NoColor
    THEN [has_color |-> TRUE, rgb |-> labelColor[label], hex |-> HexString(labelColor[label])]
    ELSE [has_color |-> FALSE]

\* lines 268-282
_extract_label_attributes(label) ==
    IF Raises(label, "FindAttribute_Comment") THEN [attribute_extraction_error |-> TRUE]
    ELSE IF commentAttr[label] # NoAttr THEN [comment |-> commentAttr[label][1]]
    ELSE EmptyDict

\* ------------------------------------------------------- Assembly Tree Walker
Returned(node) == [raised |-> FALSE, node |-> node, exc |-> ""]
Propagated(exc) == [raised |-> TRUE, node |-> EmptyDict, exc |-> exc]
WithError(node, exc) == node @@ ("processing_error" :> exc)

RECURSIVE _process_assembly_node(_, _), ChildLoop(_, _, _, _)

\* A plausible slip: a label typed "assembly" when it has components, and not
\* by the kernel's IsSimpleShape of line 101.
ProcessNodeTypedByComponents(label, level) ==
    IF Raises(label, "IsSimpleShape_101") THEN Propagated("IsSimpleShape_101")
    ELSE
    LET node_data == [label_id |-> label, level |-> level,
                      name |-> _extract_label_name(label),
                      type |-> IF comps[label] # <<>> THEN "assembly" ELSE "part",
                      shape_info |-> EmptyDict, color_info |-> EmptyDict,
                      attributes |-> EmptyDict, children |-> <<>>]
    IN  IF Raises(label, "GetShape") THEN Returned(WithError(node_data, "GetShape"))
        ELSE
        LET shaped == IF ~nullShape[label]
                      THEN [node_data EXCEPT !.shape_info = _analyze_shape_comprehensive(label)]
                      ELSE node_data
            filled == [shaped EXCEPT !.color_info = _extract_label_color(label),
                                     !.attributes = _extract_label_attributes(label)]
        IN  IF Raises(label, "IsSimpleShape_121")
            THEN Returned(WithError(filled, "IsSimpleShape_121"))
            ELSE IF simple[label] THEN Returned(filled)
            ELSE IF Raises(label, "GetComponents")
            THEN Returned(WithError(filled, "GetComponents"))
            ELSE LET loop == ChildLoop(comps[label], 1, level, <<>>)
                     parent == [filled EXCEPT !.children = loop.children]
                 IN  IF loop.raised THEN Returned(WithError(parent, loop.exc))
                     ELSE Returned(parent)

\* A plausible slip: range(1, child_labels.Length()) leaves out the last child.
ChildLoopDropLast(child_labels, j, level, children) ==
    IF j >= Len(child_labels)
    THEN [raised |-> FALSE, children |-> children, exc |-> ""]
    ELSE LET r == _process_assembly_node(child_labels[j], level + 1) IN
         IF r.raised
         THEN [raised |-> TRUE, children |-> children, exc |-> r.exc]
         ELSE ChildLoop(child_labels, j + 1, level, Append(children, r.node))

\* lines 125-128: the children built before a child call raises stay in the list.
ChildLoop(child_labels, j, level, children) ==
    IF j > Len(child_labels)
    THEN [raised |-> FALSE, children |-> children, exc |-> ""]
    ELSE LET r == _process_assembly_node(child_labels[j], level + 1) IN
         IF r.raised
         THEN [raised |-> TRUE, children |-> children, exc |-> r.exc]
         ELSE ChildLoop(child_labels, j + 1, level, Append(children, r.node))

\* lines 95-133.  The node dict is built (lines 97-106) before the try block
\* opens at line 108, so a raise of the classification at line 101 leaves the
\* function; everything from line 110 on is caught at line 130.
_process_assembly_node(label, level) ==
    IF Raises(label, "IsSimpleShape_101") THEN Propagated("IsSimpleShape_101")
    ELSE
    LET node_data == [label_id |-> label, level |-> level,
                      name |-> _extract_label_name(label),
                      type |-> IF ~simple[label] THEN "assembly" ELSE "part",
                      shape_info |-> EmptyDict, color_info |-> EmptyDict,
                      attributes |-> EmptyDict, children |-> <<>>]
    IN  IF Raises(label, "GetShape") THEN Returned(WithError(node_data, "GetShape"))
        ELSE
        LET shaped == IF ~nullShape[label]
                      THEN [node_data EXCEPT !.shape_info = _analyze_shape_comprehensive(label)]
                      ELSE node_data
            filled == [shaped EXCEPT !.color_info = _extract_label_color(label),
                                     !.attributes = _extract_label_attributes(label)]
        IN  IF Raises(label, "IsSimpleShape_121")
            THEN Returned(WithError(filled, "IsSimpleShape_121"))
            ELSE IF simple[label] THEN Returned(filled)
            ELSE IF Raises(label, "GetComponents")
            THEN Returned(WithError(filled, "GetComponents"))
            ELSE LET loop == ChildLoop(comps[label], 1, level, <<>>)
                     parent == [filled EXCEPT !.children = loop.children]
                 IN  IF loop.raised THEN Returned(WithError(parent, loop.exc))
                     ELSE Returned(parent)

Max(a, b) == IF a >= b THEN a ELSE b

RECURSIVE _calculate_node_depth(_), MaxChildDepth(_, _, _)
\* lines 289-292
MaxChildDepth(children, k, max_child_depth) ==
    IF k > Len(children) THEN max_child_depth
    ELSE MaxChildDepth(children, k + 1,
                       Max(max_child_depth, _calculate_node_depth(children[k])))

\* A plausible slip: the depth taken one level down without recursing.
NodeDepthOneLevel(node) ==
    IF node.children = <<>> THEN node.level ELSE node.level + 1

\* lines 284-294
_calculate_node_depth(node) ==
    IF node.children = <<>> THEN node.level
    ELSE MaxChildDepth(node.children, 1, 0)

RECURSIVE RootLoop(_, _)
\* A plausible slip: range(1, free_shapes.Length()), the last free shape left
\* out.
RootLoopDropLast(i, tree) ==
    IF i >= Len(free) THEN [raised |-> FALSE, tree |-> tree, exc |-> ""]
    ELSE LET r == _process_assembly_node(free[i], 0) IN
         IF r.raised THEN [raised |-> TRUE, tree |-> tree, exc |-> r.exc]
         ELSE RootLoop(i + 1,
                       [tree EXCEPT !.root_assemblies = Append(@, r.node),
                                    !.hierarchy_depth =
                                        Max(@, _calculate_node_depth(r.node))])

\* lines 37-44
RootLoop(i, tree) ==
    IF i > Len(free) THEN [raised |-> FALSE, tree |-> tree, exc |-> ""]
    ELSE LET r == _process_assembly_node(free[i], 0) IN
         IF r.raised THEN [raised |-> TRUE, tree |-> tree, exc |-> r.exc]
         ELSE RootLoop(i + 1,
                       [tree EXCEPT !.root_assemblies = Append(@, r.node),
                                    !.hierarchy_depth =
                                        Max(@, _calculate_node_depth(r.node))])

\* lines 20-49
extract_assembly_tree ==
    IF ~binding THEN [extraction_error |-> "OpenCASCADE not available"]
    ELSE IF Raises(0, "GetFreeShapes") THEN [extraction_error |-> "GetFreeShapes"]
    ELSE LET loop == RootLoop(1, [root_assemblies |-> <<>>,
                                  total_free_shapes |-> Len(free),
                                  hierarchy_depth |-> 0])
         IN  IF loop.raised THEN [extraction_error |-> loop.exc] ELSE loop.tree

\* ------------------------------------------------------- Colour Extractor
\* lines 60-65: the first role, in the order general, surface, curve, under
\* which the kernel has a colour for the label; 0 when there is none.
FirstRole(label) ==
    IF roleColor[label]["general"] # NoColor THEN 1
    ELSE IF roleColor[label]["surface"] # NoColor THEN 2
    ELSE IF roleColor[label]["curve"] # NoColor THEN 3
    ELSE 0

RECURSIVE SortedSeq(_)
SortedSeq(S) ==
    IF S = {} THEN <<>>
    ELSE LET m == CHOOSE x \in S : \A y \in S : x <= y IN <<m>> \o SortedSeq(S \ {m})

\* color_tool.GetColors: the labels that have a colour assigned.
GetColors == SortedSeq({l \in Labels : FirstRole(l) # 0})

RECURSIVE ColorToolLoop(_, _, _)
\* lines 54-77
ColorToolLoop(color_labels, i, colors) ==
    IF i > Len(color_labels) THEN [raised |-> FALSE, colors |-> colors, exc |-> ""]
    ELSE LET label == color_labels[i] IN
         IF Raises(label, "GetColor_role")
         THEN [raised |-> TRUE, colors |-> colors, exc |-> "GetColor_role"]
         ELSE IF FirstRole(label) = 0 THEN ColorToolLoop(color_labels, i + 1, colors)
         ELSE LET rgb == roleColor[label][Roles[FirstRole(label)]]
                  entry == [type |-> Roles[FirstRole(label)], rgb |-> rgb,
                            hex |-> HexString(rgb), label_id |-> label]
              IN  ColorToolLoop(color_labels, i + 1,
                      [colors EXCEPT
                          !.color_definitions = Append(@, entry),
                          !.color_assignments = (label :> entry) @@ @,
                          !.total_colors = @ + 1])

RECURSIVE ShapeColorLoop(_, _)
\* A plausible slip: the test of line 92 left out, a label the colour-tool pass
\* assigned counted again.
ShapeColorLoopCountsAgain(i, colors) ==
    IF i > Len(free) THEN [raised |-> FALSE, colors |-> colors, exc |-> ""]
    ELSE LET label == free[i] IN
         IF Raises(label, "IsSet")
         THEN [raised |-> TRUE, colors |-> colors, exc |-> "IsSet"]
         ELSE IF /\ roleColor[label]["general"] # NoColor
                 /\ "has_color" \in DOMAIN _extract_label_color(label)
                 /\ _extract_label_color(label).has_color
         THEN ShapeColorLoop(i + 1,
                  [colors EXCEPT
                      !.color_assignments = (label :> _extract_label_color(label)) @@ @,
                      !.total_colors = @ + 1])
         ELSE ShapeColorLoop(i + 1, colors)

\* lines 87-96; ColorExtractor._extract_label_color (lines 98-113) is the same
\* role-less lookup as AssemblyExtractor._extract_label_color.
ShapeColorLoop(i, colors) ==
    IF i > Len(free) THEN [raised |-> FALSE, colors |-> colors, exc |-> ""]
    ELSE LET label == free[i] IN
         IF Raises(label, "IsSet")
         THEN [raised |-> TRUE, colors |-> colors, exc |-> "IsSet"]
         ELSE IF /\ roleColor[label]["general"] # NoColor
                 /\ label \notin DOMAIN colors.color_assignments
                 /\ "has_color" \in DOMAIN _extract_label_color(label)
                 /\ _extract_label_color(label).has_color
         THEN ShapeColorLoop(i + 1,
                  [colors EXCEPT
                      !.color_assignments = (label :> _extract_label_color(label)) @@ @,
                      !.total_colors = @ + 1])
         ELSE ShapeColorLoop(i + 1, colors)

\* lines 20-42; the ColorData object is filled in place, so what was collected
\* before a raise stays in it.
extract_all_colors ==
    LET empty == [color_definitions |-> <<>>, color_assignments |-> EmptyDict,
                  total_colors |-> 0]
        failed(colors, exc) == colors @@ ("extraction_error" :> exc)
    IN  IF ~binding THEN failed(empty, "OpenCASCADE not available")
        ELSE IF Raises(0, "GetColors") THEN failed(empty, "GetColors")
        ELSE LET tool == ColorToolLoop(GetColors, 1, empty) IN
             IF tool.raised THEN failed(tool.colors, tool.exc)
             ELSE IF Raises(0, "GetFreeShapes") THEN failed(tool.colors, "GetFreeShapes")
             ELSE LET shapes == ShapeColorLoop(1, tool.colors) IN
                  IF shapes.raised THEN failed(shapes.colors, shapes.exc)
                  ELSE shapes.colors

\* ------------------------------------------------------- Flat Part Lister
DecDigit(d) == <<"0", "1", "2", "3", "4", "5", "6", "7", "8", "9">>[d + 1]

RECURSIVE DecDigits(_)
\* str(n) for n >= 0, as a sequence of characters.
DecDigits(n) == IF n < 10 THEN <<DecDigit(n)>> ELSE Append(DecDigits(n \div 10), DecDigit(n % 10))

RECURSIVE ZeroFill(_, _)
\* str.zfill(width) and the format spec 0<width>d: zeros on the left up to the
\* width, nothing cut off beyond it.
ZeroFill(digits, width) ==
    IF Len(digits) >= width THEN digits ELSE ZeroFill(<<"0">> \o digits, width)

\* f"part_{i:04d}" (line 68) and "part_" + str(part_counter).zfill(4).
PartId(n) == <<"p", "a", "r", "t", "_">> \o ZeroFill(DecDigits(n), 4)

RECURSIVE PartsLoop(_, _)
\* lines 63-85, inside the try block opened at line 55: a raise of either
\* kernel call leaves the loop with the records appended so far.
PartsLoop(i, parts_data_) ==
    IF i > Len(free) THEN [raised |-> FALSE, parts |-> parts_data_, exc |-> ""]
    ELSE LET label == free[i] IN
         IF Raises(label, "IsSimpleShape_74")
         THEN [raised |-> TRUE, parts |-> parts_data_, exc |-> "IsSimpleShape_74"]
         ELSE
         LET part_data == [part_id |-> PartId(i),
                           label_id |-> <<"l", "a", "b", "e", "l", "_">> \o DecDigits(i),
                           name |-> _extract_label_name(label),
                           shape_analysis |-> EmptyDict,
                           color_data |-> EmptyDict,
                           custom_properties |-> EmptyDict,
                           shape_type |-> IF ~simple[label] THEN "assembly" ELSE "part"]
         IN  IF Raises(label, "GetShape_78")
             THEN [raised |-> TRUE, parts |-> parts_data_, exc |-> "GetShape_78"]
             ELSE LET analysed ==
                          [part_data EXCEPT !.shape_analysis =
                              IF ~nullShape[label] THEN _analyze_shape_comprehensive(label)
                              ELSE [error |-> "Null shape"]]
                  IN  PartsLoop(i + 1, [parts_data_ EXCEPT
                                           !.parts_list = Append(@, analysed),
                                           !.total_parts = @ + 1])

\* AssemblyExtractor.extract_all_parts, lines 51-93: one try block around the
\* whole loop.  The method does not look at opencascade_available: without the
\* binding the import of line 56 raises inside the try block.
extract_all_parts ==
    LET empty == [total_parts |-> 0, parts_list |-> <<>>] IN
    IF ~binding THEN empty @@ ("extraction_error" :> "No module named 'OCC'")
    ELSE IF Raises(0, "GetFreeShapes_59") THEN empty @@ ("extraction_error" :> "GetFreeShapes_59")
    ELSE LET loop == PartsLoop(1, empty) IN
         IF loop.raised THEN loop.parts @@ ("extraction_error" :> loop.exc)
         ELSE loop.parts

\* ------------------------------------------- FreeCAD part lister (bom_extraction.py)
\* Kinds of FreeCAD document objects: a solid feature, a shell without solids,
\* a shape whose type has no Solids attribute, and an object without a valid
\* shape (line 34).
ObjectKinds == {"feature", "shell", "mesh", "group"}

HasValidShape(kind) == kind # "group"

\* lines 86-91: the four counts; a raise inside the try resets all of them.
BomTopology(i) ==
    IF Raises(i, "Solids_89") THEN [vertices |-> 0, edges |-> 0, faces |-> 0, solids |-> 0]
    ELSE [vertices |-> 8, edges |-> 12, faces |-> 6,
          solids |-> IF objects[i] = "mesh" THEN 1
                     ELSE IF objects[i] = "feature" THEN 2 ELSE 0]

\* lines 118-123 in thousandths: round(0.3 + (part_counter * step) % 0.7, 2).
\* The arguments are multiples of 0.05, which rounding to two places keeps.
GeneratedColor(part_counter) ==
    <<300 + ((part_counter * 100) % 700),
      300 + ((part_counter * 150) % 700),
      300 + ((part_counter * 200) % 700)>>

\* lines 94-136.  bom.py runs the script with FreeCADCmd, without a GUI, so
\* the objects have no ViewObject.ShapeColor and the generated colour stays.
BomPartInfo(i, part_counter) ==
    LET topo == BomTopology(i) IN
    [part_id |-> PartId(part_counter),
     name |-> <<"O", "b", "j", "_">> \o DecDigits(i),
     shape_analysis |->
        [topology |-> [topo EXCEPT !.solids = Max(@, 1)],
         geometry_properties |-> [volume |-> VolumeMass(i), surface_area |-> SurfaceMass(i),
                                  center_of_mass |-> CentreOfMass(i)],
         bounding_info |-> [dimensions |-> <<2 * i, 4 * i, 6 * i>>],
         shape_type |-> "2",
         is_valid |-> TRUE],
     color_data |-> [has_color |-> TRUE, type |-> "surface",
                     rgb |-> GeneratedColor(part_counter),
                     hex |-> HexString(GeneratedColor(part_counter))],
     custom_properties |-> [type |-> "Part::Feature"]]

RECURSIVE BomLoop(_, _, _)
\* lines 32-164.  part_counter is advanced at line 36, before the work that may
\* raise; the except of line 162 continues with the next object.  A raise of
\* the print of line 160 comes after the append of line 157 and changes nothing.
BomLoop(i, part_counter, parts_list) ==
    IF i > Len(objects)
    THEN [raised |-> FALSE, part_counter |-> part_counter, parts_list |-> parts_list]
    ELSE IF Raises(i, "Shape_34")
    THEN [raised |-> TRUE, part_counter |-> part_counter, parts_list |-> parts_list]
    ELSE IF ~HasValidShape(objects[i]) THEN BomLoop(i + 1, part_counter, parts_list)
    ELSE IF Raises(i, "Label_96") THEN BomLoop(i + 1, part_counter + 1, parts_list)
    ELSE BomLoop(i + 1, part_counter + 1,
                 Append(parts_list, BomPartInfo(i, part_counter + 1)))

\* The script, lines 17-193: an exception outside the per-object try is
\* re-raised at line 193 and no BOM file is written.
bom_extraction ==
    LET loop == BomLoop(1, 0, <<>>) IN
    IF loop.raised THEN [done |-> TRUE, raised |-> TRUE]
    ELSE [done |-> TRUE, raised |-> FALSE,
          bom |-> [total_parts |-> loop.part_counter, parts_list |-> loop.parts_list]]

\* ------------------------------------------------------- Geometry Analyzer
RECURSIVE GeometryLoop(_, _)
\* geometry_analyzer.py lines 51-62: totals over the free shapes that are not
\* null; every face counts as a plane.
GeometryLoop(i, totals) ==
    IF i > Len(free) THEN totals
    ELSE IF nullShape[free[i]] THEN GeometryLoop(i + 1, totals)
    ELSE GeometryLoop(i + 1,
             [total_volume |-> totals.total_volume + VolumeMass(free[i]),
              total_surface_area |-> totals.total_surface_area + SurfaceMass(free[i]),
              planes |-> totals.planes + ExplorerCount(free[i], "faces")])

\* GeometryAnalyzer.analyze_all_geometry, lines 20-80
analyze_all_geometry ==
    IF ~binding THEN [extraction_error |-> "OpenCASCADE not available"]
    ELSE IF Raises(0, "GetFreeShapes_38") THEN [extraction_error |-> "GetFreeShapes_38"]
    ELSE LET totals == GeometryLoop(1, [total_volume |-> 0, total_surface_area |-> 0,
                                        planes |-> 0])
         IN  [overall_statistics |->
                 [total_volume |-> totals.total_volume,
                  total_surface_area |-> totals.total_surface_area,
                  total_shapes |-> Len(free)],
              complexity_metrics |->
                 [surface_type_distribution |->
                     [planes |-> totals.planes, cylinders |-> 0, spheres |-> 0,
                      complex_surfaces |-> 0],
                  geometric_complexity_score |-> totals.planes],
              geometric_features |-> <<"planes", "cylinders", "spheres", "complex_surfaces">>]

\* ------------------------------------------------------- Kernel coordinator
\* Calls of one file's processing that may raise: mkdir of the file's output
\* directory (main.py line 36), os.stat (main_extractor.py line 106),
\* reader.ReadFile and reader.Transfer (opencascade_processor.py lines 64 and
\* 69), output_manager.save_dynamic_output (main_extractor.py line 93).
RunCalls == {"mkdir", "os_stat", "ReadFile", "Transfer", "save_dynamic_output"}

\* OpenCASCADEData() as extract_with_opencascade uses it (lines 53, 77-87).
OpenCASCADEData ==
    [assembly_structure |-> EmptyDict, part_data |-> EmptyDict, colors |-> EmptyDict,
     geometry_analysis |-> EmptyDict, materials |-> EmptyDict, relationships |-> EmptyDict]

\* opencascade_processor.py lines 64-69: the message of the exception that
\* keeps file f out of the document, "" when the document receives it.
ReadAndTransfer(f) ==
    IF Raises(f, "ReadFile") THEN "ReadFile"
    ELSE IF files[f] # "ok" THEN "Failed to read STEP file with OpenCASCADE"
    ELSE IF Raises(f, "Transfer") THEN "Transfer"
    ELSE ""

\* lines 72-84: what the specialised modules extract from the document.
Extracted ==
    [assembly_structure |-> extract_assembly_tree,
     part_data |-> extract_all_parts,
     colors |-> extract_all_colors,
     geometry_analysis |-> analyze_all_geometry,
     materials |-> [extraction_note |-> "Material extraction requires specific STEP content"],
     relationships |-> [extraction_note |-> "Relationship extraction requires detailed analysis"]]

\* OpenCASCADEProcessor.extract_with_opencascade, lines 51-89; extracted is
\* what the modules extract from the document after the transfer.
extract_with_opencascade(f, extracted) ==
    IF ~opencascade_available
    THEN OpenCASCADEData @@ ("opencascade_error" :> "OpenCASCADE not available")
    ELSE IF ReadAndTransfer(f) # ""
    THEN OpenCASCADEData @@ ("opencascade_error" :> ReadAndTransfer(f))
    ELSE extracted

\* ------------------------------------------------------- Extraction coordinator
\* main_extractor.py lines 40-55; the text-level fields (file_analysis,
\* step_header, entities, web_assets) are left out.
InitialStpData(f) ==
    [extraction_info |-> [source_file |-> f, opencascade_available |-> opencascade_available],
     assembly_structure |-> EmptyDict, part_data |-> EmptyDict, materials |-> EmptyDict,
     colors |-> EmptyDict, geometry_analysis |-> EmptyDict, relationships |-> EmptyDict,
     extraction_statistics |-> EmptyDict]

\* lines 126-133: six fields are copied; opencascade_error is not among them.
_merge_opencascade_data(stp_data, occ_data) ==
    [stp_data EXCEPT !.assembly_structure = occ_data.assembly_structure,
                     !.part_data = occ_data.part_data,
                     !.materials = occ_data.materials,
                     !.colors = occ_data.colors,
                     !.geometry_analysis = occ_data.geometry_analysis,
                     !.relationships = occ_data.relationships]

\* lines 135-143; error_list is the list object itself, so it shows the errors
\* appended until the result is returned (error_list_).
_generate_extraction_stats(error_list_) ==
    [total_entities_processed |-> 0,
     errors_encountered |-> Len(errors),
     error_list |-> error_list_,
     extraction_success |-> Len(errors) = 0]

\* MainExtractor.extract_all_stp_data, lines 33-102, once os.stat of line 106
\* has succeeded: the step 3 of lines 69-79, the statistics of line 90, the
\* save of line 93 and the except of lines 98-102.
extract_all_stp_data(f, extracted) ==
    LET merged == IF opencascade_available
                  THEN _merge_opencascade_data(InitialStpData(f),
                                               extract_with_opencascade(f, extracted))
                  ELSE InitialStpData(f)
    IN  IF Raises(f, "save_dynamic_output")
        THEN [stp_data |->
                 [merged EXCEPT
                     !.extraction_statistics =
                         _generate_extraction_stats(Append(errors, "save_dynamic_output")),
                     !.extraction_info = @ @@ ("extraction_error" :> "save_dynamic_output")],
              errors |-> Append(errors, "save_dynamic_output")]
        ELSE [stp_data |->
                 [merged EXCEPT !.extraction_statistics = _generate_extraction_stats(errors)],
              errors |-> errors]

\* ------------------------------------------------------------------- Init
RECURSIVE SubsetsUpTo(_, _)
SubsetsUpTo(S, k) ==
    IF k = 0 THEN {{}}
    ELSE LET smaller == SubsetsUpTo(S, k - 1) IN
         smaller \cup {f \cup {x} : f \in smaller, x \in S}

\* The kernel misbehaves on at most MaxFailures calls of a run.
FailureSets(pairs) == SubsetsUpTo(pairs, MaxFailures)

NoDupSeqs(S) ==
    {s \in UNION {[1..k -> S] : k \in 0..Cardinality(S)} :
        \A i, j \in DOMAIN s : i # j => s[i] # s[j]}

\* Acyclic label hierarchies: the components of a label are labels above it.
Hierarchies ==
    {h \in [Labels -> NoDupSeqs(Labels \ {1})] :
        \A l \in Labels : \A i \in DOMAIN h[l] : h[l][i] > l}

\* The free shapes of a hierarchy: the labels that are nobody's component.
FreeOf(h) ==
    SortedSeq({l \in Labels : \A p \in Labels : \A i \in DOMAIN h[p] : h[p][i] # l})

NoRoleColors == [l \in Labels |-> [r \in {"general", "surface", "curve"} |-> NoColor]]

DefaultNames ==
    [l \in Labels |-> IF l = 1 THEN <<"Gearbox">> ELSE IF l = 2 THEN <<"">> ELSE NoAttr]

DefaultComments == [l \in Labels |-> IF l = 1 THEN <<"rev A">> ELSE NoAttr]

\* No multi-file run: the binding is there and no file is at hand.
NoRun ==
    /\ binding = TRUE
    /\ opencascade_available = TRUE
    /\ files = <<>>
    /\ next_file = 1
    /\ doc_files = <<>>
    /\ main_raised = FALSE
    /\ errors = <<>>
    /\ results = <<>>

\* Documents in which one shape and the analyzer's kernel calls vary.
InitAnalyzer ==
    /\ comps = [l \in Labels |-> <<>>]
    /\ free = SortedSeq(Labels)
    /\ simple = [l \in Labels |-> TRUE]
    /\ \E n \in BOOLEAN : nullShape = [l \in Labels |-> IF l = 1 THEN n ELSE FALSE]
    /\ \E v \in BOOLEAN : bboxVoid = [l \in Labels |-> IF l = 1 THEN v ELSE FALSE]
    /\ roleColor = NoRoleColors
    /\ labelColor = [l \in Labels |-> NoColor]
    /\ raises \in FailureSets({1} \X AnalyzerCalls)

\* Documents in which the label hierarchy and the walker's kernel calls vary.
InitWalk ==
    /\ \E h \in Hierarchies : \E sm \in [Labels -> BOOLEAN] :
         /\ \A l \in Labels : sm[l] => h[l] = <<>>
         /\ comps = h
         /\ simple = sm
         /\ free = FreeOf(h)
    /\ nullShape = [l \in Labels |-> l = MaxLabels]
    /\ bboxVoid = [l \in Labels |-> FALSE]
    /\ roleColor = NoRoleColors
    /\ labelColor = [l \in Labels |-> NoColor]
    /\ raises \in FailureSets(({0} \X {"GetFreeShapes"}) \cup (Labels \X WalkerCalls))

Components == {(k * 1000) \div ColorSteps : k \in 0..ColorSteps}
Palette == {<<a, 1000 - a, b>> : a \in Components, b \in Components}

\* The colour of a role differs from role to role: the channels rotate.
Tint(c, role) ==
    IF role = "general" THEN c
    ELSE IF role = "surface" THEN <<c[2], c[3], c[1]>>
    ELSE <<c[3], c[1], c[2]>>

\* Documents in which the colours of one label and the helpers' kernel calls vary:
\* an assembly root whose components are all the other labels.  The role-less
\* lookup finds a colour only for a label that has one assigned under some role.
InitColor ==
    /\ comps = [l \in Labels |-> IF l = 1 THEN SortedSeq(Labels \ {1}) ELSE <<>>]
    /\ free = <<1>>
    /\ simple = [l \in Labels |-> l # 1]
    /\ nullShape = [l \in Labels |-> FALSE]
    /\ bboxVoid = [l \in Labels |-> FALSE]
    /\ \E l \in Labels : \E present \in SUBSET {"general", "surface", "curve"} :
       \E c \in Palette :
       \E lc \in IF present = {} THEN {NoColor} ELSE {NoColor, <<c[2], c[1], c[3]>>} :
         /\ roleColor = [x \in Labels |-> [r \in {"general", "surface", "curve"} |->
                            IF x = l /\ r \in present THEN Tint(c, r) ELSE NoColor]]
         /\ labelColor = [x \in Labels |-> IF x = l THEN lc ELSE NoColor]
         /\ raises \in FailureSets(({0} \X {"GetColors"}) \cup ({l} \X HelperCalls))

\* Documents in which the roots and the flat lister's kernel calls vary; the
\* second label has a colour.
InitParts ==
    /\ \E h \in Hierarchies :
         /\ comps = h
         /\ simple = [l \in Labels |-> h[l] = <<>>]
         /\ free = FreeOf(h)
    /\ nullShape = [l \in Labels |-> l = MaxLabels]
    /\ bboxVoid = [l \in Labels |-> FALSE]
    /\ roleColor = [l \in Labels |-> [r \in {"general", "surface", "curve"} |->
                       IF l = 2 /\ r = "general" THEN <<1000, 0, 0>> ELSE NoColor]]
    /\ labelColor = [l \in Labels |-> IF l = 2 THEN <<1000, 0, 0>> ELSE NoColor]
    /\ raises \in FailureSets(({0} \X {"GetFreeShapes_59"})
                              \cup (Labels \X (PartsCalls \cup {"GetShape"})))
    /\ objects = <<>>
    /\ NoRun

\* FreeCAD documents: up to MaxLabels objects of any kind, and the accesses
\* that raise.
InitBom ==
    /\ comps = [l \in Labels |-> <<>>]
    /\ free = <<>>
    /\ simple = [l \in Labels |-> TRUE]
    /\ nullShape = [l \in Labels |-> FALSE]
    /\ bboxVoid = [l \in Labels |-> FALSE]
    /\ roleColor = NoRoleColors
    /\ labelColor = [l \in Labels |-> NoColor]
    /\ objects \in UNION {[1..n -> ObjectKinds] : n \in 1..MaxLabels}
    /\ raises \in FailureSets((DOMAIN objects) \X BomCalls)
    /\ NoRun

\* The state after MainExtractor() (main.py line 28): an empty document,
\* created once by _initialize_opencascade when the binding is there, up to
\* MaxLabels files of which file k holds one part, label k, and the calls that
\* raise.  The processor is unavailable without the binding, and also when
\* its initialisation raised (opencascade_processor.py lines 47-49).
InitRun ==
    /\ comps = [l \in Labels |-> <<>>]
    /\ free = <<>>
    /\ simple = [l \in Labels |-> TRUE]
    /\ nullShape = [l \in Labels |-> FALSE]
    /\ bboxVoid = [l \in Labels |-> FALSE]
    /\ roleColor = NoRoleColors
    /\ labelColor = [l \in Labels |-> NoColor]
    /\ objects = <<>>
    /\ binding \in BOOLEAN
    /\ opencascade_available \in IF binding THEN BOOLEAN ELSE {FALSE}
    /\ files \in UNION {[1..n -> {"ok", "unreadable"}] : n \in 1..MaxLabels}
    /\ raises \in FailureSets((DOMAIN files) \X RunCalls)
    /\ next_file = 1
    /\ doc_files = <<>>
    /\ main_raised = FALSE
    /\ errors = <<>>
    /\ results = <<>>

NothingExtracted ==
    /\ nameAttr = DefaultNames
    /\ commentAttr = DefaultComments
    /\ hashSeed = 0
    /\ assembly_tree = NoResult
    /\ analysis = NoResult
    /\ color_data = NoResult
    /\ parts_data = NoResult
    /\ bom_data = NoResult
    /\ tree_again = NoResult

Fixed == NothingExtracted /\ objects = <<>> /\ NoRun

Init == (InitWalk \/ InitColor) /\ Fixed

InitShapes == InitAnalyzer /\ Fixed

InitLister == InitParts /\ NothingExtracted

InitScript == InitBom /\ NothingExtracted

InitMain == InitRun /\ NothingExtracted

\* ---------------------------------------------------------------- actions
\* AssemblyExtractor.extract_assembly_tree(shape_tool, color_tool)
ExtractAssemblyTree ==
    /\ assembly_tree' = [done |-> TRUE, tree |-> extract_assembly_tree]
    /\ UNCHANGED <<kernelVars, runVars, analysis, color_data, parts_data, bom_data, tree_again>>

\* A direct call of _analyze_shape_comprehensive on the shape of one label.
AnalyzeShape ==
    /\ \E l \in Labels :
         analysis' = [done |-> TRUE, label |-> l,
                      result |-> _analyze_shape_comprehensive(l),
                      calls |-> AnalyzerRun(l).calls]
    /\ UNCHANGED <<kernelVars, runVars, assembly_tree, color_data, parts_data, bom_data, tree_again>>

\* ColorExtractor.extract_all_colors(color_tool, shape_tool)
ExtractAllColors ==
    /\ color_data' = [done |-> TRUE, colors |-> extract_all_colors]
    /\ UNCHANGED <<kernelVars, runVars, assembly_tree, analysis, parts_data, bom_data, tree_again>>

\* AssemblyExtractor.extract_all_parts(shape_tool, color_tool)
ExtractAllParts ==
    /\ parts_data' = [done |-> TRUE, parts |-> extract_all_parts]
    /\ UNCHANGED <<kernelVars, runVars, assembly_tree, analysis, color_data, bom_data, tree_again>>

\* One run of the bom_extraction.py script on the document.
BomExtraction ==
    /\ bom_data' = bom_extraction
    /\ UNCHANGED <<kernelVars, runVars, assembly_tree, analysis, color_data, parts_data, tree_again>>

\* One iteration of the loop of main.py lines 31-44: extract_all_stp_data on
\* the next file.  The document of the processor is the one created at
\* construction; a file that is read and transferred is added to it.  A raise
\* of os.stat (before the try of main_extractor.py line 57) reaches main and
\* is caught at line 43; a raise of the mkdir of line 36, before the try of
\* line 38, leaves the loop and main.
ProcessFile ==
    /\ ~main_raised
    /\ next_file <= Len(files)
    /\ UNCHANGED <<comps, simple, nullShape, bboxVoid, roleColor, labelColor,
                   nameAttr, commentAttr, raises, hashSeed, objects,
                   binding, opencascade_available, files>>
    /\ UNCHANGED <<assembly_tree, analysis, color_data, parts_data, bom_data, tree_again>>
    /\ LET f == next_file
           received == /\ ~Raises(f, "os_stat")
                       /\ opencascade_available
                       /\ ReadAndTransfer(f) = ""
       IN  IF Raises(f, "mkdir")
           THEN /\ main_raised' = TRUE
                /\ UNCHANGED <<free, doc_files, next_file, errors, results>>
           ELSE /\ main_raised' = FALSE
                /\ next_file' = next_file + 1
                /\ free' = IF received THEN Append(free, f) ELSE free
                /\ doc_files' = IF received THEN Append(doc_files, f) ELSE doc_files
                /\ IF Raises(f, "os_stat")
                   THEN /\ results' = Append(results, [file |-> f, raised |-> TRUE])
                        /\ errors' = errors
                   ELSE LET run == extract_all_stp_data(f, Extracted') IN
                        /\ results' = Append(results, [file |-> f, raised |-> FALSE,
                                                       stp_data |-> run.stp_data])
                        /\ errors' = run.errors

\* The interpreter's string hash seeds: hash(str(label)) of line 250 changes
\* from one interpreter process to the next.
Seeds == 0..1

\* Between two walks the interpreter may be another one (another run of
\* main.py on the same file): only the hash seed changes.
NewInterpreter ==
    /\ assembly_tree.done /\ ~tree_again.done
    /\ hashSeed' \in Seeds \ {hashSeed}
    /\ UNCHANGED <<comps, free, simple, nullShape, bboxVoid, roleColor, labelColor,
                   nameAttr, commentAttr, raises, objects>>
    /\ UNCHANGED <<runVars, assembly_tree, analysis, color_data, parts_data, bom_data,
                   tree_again>>

\* The walk run again on the same document.
WalkAgain ==
    /\ assembly_tree.done
    /\ tree_again' = [done |-> TRUE, tree |-> extract_assembly_tree]
    /\ UNCHANGED <<kernelVars, runVars, assembly_tree, analysis, color_data, parts_data,
                   bom_data>>

Next == ExtractAssemblyTree \/ ExtractAllColors

NextRewalk == ExtractAssemblyTree \/ NewInterpreter \/ WalkAgain

NextParts == ExtractAssemblyTree \/ ExtractAllParts

\* The tree walk and the colour extraction over documents.
Spec == Init /\ [][Next]_vars

\* The shape analyzer applied to shapes.
SpecAnalyzer == InitShapes /\ [][AnalyzeShape]_vars

\* The nested tree and the flat part list of one document.
SpecParts == InitLister /\ [][NextParts]_vars

\* main.py: one MainExtractor processing the files found, one after the other.
SpecRun == InitMain /\ [][ProcessFile]_vars

\* The tree walk and its repetition on one document.
SpecRewalk == InitLister /\ [][NextRewalk]_vars

\* The FreeCAD script on FreeCAD documents.
SpecBom == InitScript /\ [][BomExtraction]_vars

\* ------------------------------------------------------------- observations
RECURSIVE SubNodes(_)
\* The nodes of the subtree rooted at a node.
SubNodes(node) ==
    {node} \cup UNION {SubNodes(node.children[k]) : k \in DOMAIN node.children}

HasTree == assembly_tree.done /\ "root_assemblies" \in DOMAIN assembly_tree.tree

TreeNodes ==
    UNION {SubNodes(assembly_tree.tree.root_assemblies[i]) :
              i \in DOMAIN assembly_tree.tree.root_assemblies}

HasError(node) == "processing_error" \in DOMAIN node

ChildLabels(node) == [k \in DOMAIN node.children |-> node.children[k].label_id]

SetMax(S) == CHOOSE x \in S : \A y \in S : y <= x

\* -------------------------------------------------------------------- C1
\* C1: in the tree walk, an exception raised by a kernel call made while a
\* node N is processed (fetching the shape, colour lookup, attribute read,
\* classifying the node, enumerating its components) is recorded as
\* processing_error on N itself and aborts neither N's siblings nor N's
\* parent: whenever the free shapes could be listed the result is a tree with
\* one root per free shape; every node for whose label a call raises carries
\* processing_error; and every node for whose own label no call raises carries
\* no processing_error and, when composite, has all its components as children.
C1_FailureIsolatedPerNode ==
    (assembly_tree.done /\ ~Raises(0, "GetFreeShapes")) =>
        /\ HasTree
        /\ ChildLabels([children |-> assembly_tree.tree.root_assemblies]) = free
        /\ \A n \in TreeNodes :
             LET own == {c \in WalkerCalls \cup {"GetColor", "FindAttribute_Comment"} :
                            Raises(n.label_id, c)}
             IN  /\ own # {} => HasError(n)
                 /\ own = {} =>
                      /\ ~HasError(n)
                      /\ ~simple[n.label_id] => ChildLabels(n) = comps[n.label_id]

\* -------------------------------------------------------------------- C2
\* C2: the walker always emits a node, even on error: when GetFreeShapes
\* returned, extract_assembly_tree returns a tree whose root_assemblies has one
\* node per free label, so len(root_assemblies) = total_free_shapes, whatever
\* kernel call fails while a node is processed.
C2_OneRootPerFreeShape ==
    (assembly_tree.done /\ ~Raises(0, "GetFreeShapes")) =>
        /\ HasTree
        /\ Len(assembly_tree.tree.root_assemblies) = assembly_tree.tree.total_free_shapes
        /\ Len(assembly_tree.tree.root_assemblies) = Len(free)
        /\ \A i \in DOMAIN free : assembly_tree.tree.root_assemblies[i].label_id = free[i]

\* -------------------------------------------------------------------- C3
LevelsStep(n) == \A k \in DOMAIN n.children : n.children[k].level = n.level + 1

RootsAtLevelZero ==
    \A i \in DOMAIN assembly_tree.tree.root_assemblies :
        assembly_tree.tree.root_assemblies[i].level = 0

\* C3 as stated: for every composite label, the node the walk produces has as
\* many children as the kernel holds components for the label, and every child
\* is one level below its parent (roots at level 0).
C3_ChildrenMatchComponents ==
    HasTree =>
        /\ RootsAtLevelZero
        /\ \A n \in TreeNodes :
             /\ LevelsStep(n)
             /\ ~simple[n.label_id] => Len(n.children) = Len(comps[n.label_id])

\* C3 as amended: for every composite label whose node carries no
\* processing_error, the children are the label's components in the kernel's
\* order; in every node, each child is one level below it, and roots are at
\* level 0.
C3_ChildrenMatchComponentsUnlessError ==
    HasTree =>
        /\ RootsAtLevelZero
        /\ \A n \in TreeNodes :
             /\ LevelsStep(n)
             /\ (~simple[n.label_id] /\ ~HasError(n)) => ChildLabels(n) = comps[n.label_id]

\* A composite node without error that has two children, one of which failed.
C3_Witness ==
    /\ HasTree
    /\ \E n \in TreeNodes :
         /\ ~simple[n.label_id]
         /\ ~HasError(n)
         /\ Len(n.children) >= 2
         /\ \E k \in DOMAIN n.children : HasError(n.children[k])

\* -------------------------------------------------------------------- C4
\* C4: hierarchy_depth of the returned tree is the largest level of any node of
\* the tree (0 for a tree without nodes): a node without children counts with
\* its own level, so a lone root gives 0 and a root with one level of children
\* gives 1.
C4_DepthIsLargestLevel ==
    HasTree =>
        assembly_tree.tree.hierarchy_depth = SetMax({n.level : n \in TreeNodes} \cup {0})

\* A tree with a grandchild: its depth is 2.
C4_Witness ==
    /\ HasTree
    /\ assembly_tree.tree.hierarchy_depth = 2
    /\ \E n \in TreeNodes : n.level = 2

\* -------------------------------------------------------------------- C5
MetricFailureOnly(label) ==
    /\ ~nullShape[label]
    /\ ~Raises(label, "ShapeType")

\* C5: on a non-null shape the three metrics (topology counts, geometry
\* properties, bounding info) are isolated from each other: whichever of them
\* fails, the other two are attempted and reported in the returned record.
C5_MetricsIsolated ==
    (analysis.done /\ MetricFailureOnly(analysis.label)) =>
        /\ {"vertices", "VolumeProperties", "BRepBndLib_Add"} \subseteq analysis.calls
        /\ analysis.result.geometry_properties # EmptyDict
        /\ analysis.result.bounding_info # EmptyDict

\* -------------------------------------------------------------------- C6
\* C6: when volume integration succeeds and surface-area integration raises,
\* geometry_properties still reports the computed volume and center_of_mass;
\* only the surface area is replaced by the calculation_failed tag.
C6_VolumeSurvivesSurfaceFailure ==
    (/\ analysis.done
     /\ MetricFailureOnly(analysis.label)
     /\ "compounds" \in analysis.calls
     /\ ~Raises(analysis.label, "compounds")
     /\ ~Raises(analysis.label, "VolumeProperties")
     /\ Raises(analysis.label, "SurfaceProperties")) =>
        /\ "volume" \in DOMAIN analysis.result.geometry_properties
        /\ "center_of_mass" \in DOMAIN analysis.result.geometry_properties
        /\ analysis.result.geometry_properties.volume = VolumeMass(analysis.label)
        /\ analysis.result.geometry_properties.center_of_mass = CentreOfMass(analysis.label)

\* -------------------------------------------------------------------- C7
\* C7: analyzing a null shape returns a record with is_valid = false and
\* analysis_error = "Shape is null/invalid", with topology, geometry_properties
\* and bounding_info empty, and makes no topology, geometry or bounding-box
\* kernel call, whatever calls the kernel would fail.
C7_NullShapeRecord ==
    (analysis.done /\ nullShape[analysis.label]) =>
        /\ analysis.result.is_valid = FALSE
        /\ "analysis_error" \in DOMAIN analysis.result
        /\ analysis.result.analysis_error = "Shape is null/invalid"
        /\ analysis.result.topology = EmptyDict
        /\ analysis.result.geometry_properties = EmptyDict
        /\ analysis.result.bounding_info = EmptyDict
        /\ analysis.calls = {}

\* A null shape analysed while the kernel would fail a call on it.
C7_Witness ==
    /\ analysis.done
    /\ nullShape[analysis.label]
    /\ \E c \in AnalyzerCalls : Raises(analysis.label, c)
    /\ analysis.result.is_valid = FALSE

\* -------------------------------------------------------------------- C8
ErrorTagged(metric) == "calculation_failed" \in DOMAIN metric

\* C8: for every non-null shape and every combination of failing kernel calls
\* the analyzer returns a record in which each of topology,
\* geometry_properties and bounding_info is either present with its values or
\* carries an error tag: no metric is left silently empty.
C8_EveryMetricPresentOrTagged ==
    (analysis.done /\ ~nullShape[analysis.label]) =>
        /\ \/ ErrorTagged(analysis.result.topology)
           \/ DOMAIN analysis.result.topology = {topology_types[i] : i \in DOMAIN topology_types}
        /\ \/ ErrorTagged(analysis.result.geometry_properties)
           \/ {"volume", "surface_area"} \subseteq DOMAIN analysis.result.geometry_properties
        /\ \/ ErrorTagged(analysis.result.bounding_info)
           \/ "void_bounding_box" \in DOMAIN analysis.result.bounding_info
           \/ "min_point" \in DOMAIN analysis.result.bounding_info

\* -------------------------------------------------------------------- C9
\* C9: colour resolution tries the roles general, surface, curve in that order
\* and stops at the first role under which the label has a colour: every
\* resolved colour record names that role and carries that role's colour (a
\* label with a surface and a curve colour and no general one resolves with
\* role surface).  This holds for the colour record the walker attaches to a
\* node and for the colour extractor's per-label definitions.
C9_FirstRoleWins ==
    /\ HasTree =>
         \A n \in TreeNodes :
            ("has_color" \in DOMAIN n.color_info /\ n.color_info.has_color) =>
                /\ "role" \in DOMAIN n.color_info
                /\ FirstRole(n.label_id) # 0
                /\ n.color_info.role = Roles[FirstRole(n.label_id)]
                /\ n.color_info.rgb = roleColor[n.label_id][Roles[FirstRole(n.label_id)]]
    /\ color_data.done =>
         \A i \in DOMAIN color_data.colors.color_definitions :
            LET d == color_data.colors.color_definitions[i] IN
            /\ FirstRole(d.label_id) # 0
            /\ d.type = Roles[FirstRole(d.label_id)]
            /\ d.rgb = roleColor[d.label_id][d.type]

\* ------------------------------------------------------------------- C10
\* Python's round() of the fraction num/den: to the nearest, ties to even.
RoundHalfEven(num, den) ==
    LET q == num \div den
        r == num % den
    IN  IF 2 * r < den THEN q
        ELSE IF 2 * r > den THEN q + 1
        ELSE IF q % 2 = 0 THEN q ELSE q + 1

RoundedHex(rgb) ==
    <<"#">> \o Format02x(RoundHalfEven(rgb[1] * 255, 1000))
            \o Format02x(RoundHalfEven(rgb[2] * 255, 1000))
            \o Format02x(RoundHalfEven(rgb[3] * 255, 1000))

\* C10: in every resolved colour the hex string is '#' followed, for red,
\* green and blue, by the two lowercase hex digits of round(component * 255).
C10_HexIsRoundedChannels ==
    /\ HasTree =>
         \A n \in TreeNodes :
            "hex" \in DOMAIN n.color_info => n.color_info.hex = RoundedHex(n.color_info.rgb)
    /\ color_data.done =>
         \A i \in DOMAIN color_data.colors.color_definitions :
            color_data.colors.color_definitions[i].hex =
                RoundedHex(color_data.colors.color_definitions[i].rgb)

\* ------------------------------------------------------------------- C11
NoColorUnderAnyRole(label) ==
    \A r \in {"general", "surface", "curve"} : roleColor[label][r] = NoColor

\* C11: the colour resolver tells absence from malfunction.  For a label that
\* has no colour under any role it returns exactly {has_color: false}; when the
\* kernel raises during the lookup it returns exactly
\* {color_extraction_error: true}; in neither case is the record one with
\* has_color true.  This holds for the resolver itself and for the colour
\* record of every node the walker resolved a colour for.
C11_AbsenceIsNotMalfunction ==
    /\ \A l \in Labels :
         /\ Raises(l, "GetColor") =>
                _extract_label_color(l) = [color_extraction_error |-> TRUE]
         /\ (~Raises(l, "GetColor") /\ NoColorUnderAnyRole(l)) =>
                _extract_label_color(l) = [has_color |-> FALSE]
    /\ HasTree =>
         \A n \in TreeNodes :
            ~Raises(n.label_id, "GetShape") =>
                /\ Raises(n.label_id, "GetColor") =>
                       n.color_info = [color_extraction_error |-> TRUE]
                /\ (~Raises(n.label_id, "GetColor") /\ NoColorUnderAnyRole(n.label_id)) =>
                       n.color_info = [has_color |-> FALSE]

\* A walked tree with one node whose lookup raised and one node without colour.
C11_Witness ==
    /\ HasTree
    /\ \E n \in TreeNodes :
         Raises(n.label_id, "GetColor") /\ n.color_info = [color_extraction_error |-> TRUE]
    /\ \E n \in TreeNodes :
         /\ ~Raises(n.label_id, "GetColor") /\ NoColorUnderAnyRole(n.label_id)
         /\ n.color_info = [has_color |-> FALSE]

\* ------------------------------------------------------------------- C12
\* C12: the walk invokes the colour resolver and the attribute reader on every
\* visited node: the color_info and the attributes of every node of the tree
\* are what those two components return for the node's label, whether or not
\* the node has a shape and whatever the outcome of the node's shape step.
C12_ColourAndAttributesOnEveryNode ==
    HasTree =>
        \A n \in TreeNodes :
            /\ n.color_info = _extract_label_color(n.label_id)
            /\ n.attributes = _extract_label_attributes(n.label_id)

\* ------------------------------------------------------------------- C13
HasParts == parts_data.done

HasBom == bom_data.done /\ ~bom_data.raised

\* The root shapes, by position, whose processing in extract_all_parts raises.
FailingRoots == {i \in DOMAIN free : \E c \in PartsCalls : Raises(free[i], c)}

\* C13: in the flat part listing an exception raised while processing one root
\* shape is isolated to that part: every root shape whose own processing does
\* not raise, those after a failing one included, has its record in the list
\* (of 3 root shapes of which the 2nd raises, at least 2 are listed), and the
\* FreeCAD script lists every object with a valid shape whose own processing
\* does not raise.
C13_PartFailureIsolated ==
    /\ (HasParts /\ ~Raises(0, "GetFreeShapes_59")) =>
         /\ \A i \in DOMAIN free \ FailingRoots :
               \E k \in DOMAIN parts_data.parts.parts_list :
                  parts_data.parts.parts_list[k].part_id = PartId(i)
         /\ Len(parts_data.parts.parts_list) >= Len(free) - Cardinality(FailingRoots)
    /\ bom_data.done =>
         /\ ~bom_data.raised
         /\ \A i \in DOMAIN objects :
               (HasValidShape(objects[i]) /\ ~Raises(i, "Label_96")) =>
                  \E k \in DOMAIN bom_data.bom.parts_list :
                     bom_data.bom.parts_list[k].name = <<"O", "b", "j", "_">> \o DecDigits(i)

\* ------------------------------------------------------------------- C14
\* C14: in every flat listing result total_parts equals the length of
\* parts_list, for every sequence of root shapes and every pattern of per-part
\* failures, in the result of extract_all_parts and in the BOM of the FreeCAD
\* script.
C14_TotalPartsIsListLength ==
    /\ HasParts => parts_data.parts.total_parts = Len(parts_data.parts.parts_list)
    /\ HasBom => bom_data.bom.total_parts = Len(bom_data.bom.parts_list)

\* ------------------------------------------------------------------- C15
DigitValue(ch) == CHOOSE d \in 0..9 : DecDigit(d) = ch

RECURSIVE DecimalValue(_)
\* The number a sequence of decimal digits denotes.
DecimalValue(digits) ==
    IF digits = <<>> THEN 0
    ELSE 10 * DecimalValue(SubSeq(digits, 1, Len(digits) - 1)) + DigitValue(digits[Len(digits)])

\* "part_" followed by exactly four decimal digits.
FourDigitPartId(part_id) ==
    /\ Len(part_id) = 9
    /\ SubSeq(part_id, 1, 5) = <<"p", "a", "r", "t", "_">>
    /\ \A j \in 6..9 : \E d \in 0..9 : part_id[j] = DecDigit(d)

\* The k-th record of a list carries the sequence number k.
NumberedInOrder(parts_list) ==
    \A k \in DOMAIN parts_list :
        /\ FourDigitPartId(parts_list[k].part_id)
        /\ DecimalValue(SubSeq(parts_list[k].part_id, 6, 9)) = k

\* C15: the flat lister assigns part_id as a zero-padded 4-digit sequence
\* number starting at 1 in traversal order: the k-th record of a part list
\* carries the number k, so the ids of a list are pairwise distinct and
\* consecutive without gaps.
C15_PartIdsNumberTheRecords ==
    /\ HasParts => NumberedInOrder(parts_data.parts.parts_list)
    /\ HasBom => NumberedInOrder(bom_data.bom.parts_list)

\* ------------------------------------------------------------------- C16
HasSolids(shape_analysis) ==
    /\ "topology" \in DOMAIN shape_analysis
    /\ "solids" \in DOMAIN shape_analysis.topology

SolidsAtLeastOne(parts_list) ==
    \A k \in DOMAIN parts_list :
        /\ HasSolids(parts_list[k].shape_analysis)
        /\ parts_list[k].shape_analysis.topology.solids >= 1

\* C16: every record of a flat part list reports a solid count of at least 1
\* in its topology summary (a count of zero or a missing count is clamped to
\* 1), while a node of the nested tree reports the count the kernel gives.
C16_FlatRecordsHaveASolid ==
    /\ HasParts => SolidsAtLeastOne(parts_data.parts.parts_list)
    /\ HasBom => SolidsAtLeastOne(bom_data.bom.parts_list)
    /\ HasTree =>
         \A n \in TreeNodes :
            HasSolids(n.shape_info) =>
               n.shape_info.topology.solids = ExplorerCount(n.label_id, "solids")

\* ------------------------------------------------------------------- C17
\* C17: the nested tree and the flat list agree on the roots: the k-th flat
\* record is that of the k-th free shape, and its name, shape_analysis and
\* color_data equal the name, shape_info and color_info of the root node the
\* tree walk built for that label.
C17_FlatRecordMatchesRootNode ==
    (HasTree /\ HasParts) =>
        \A k \in DOMAIN parts_data.parts.parts_list :
        \A i \in DOMAIN assembly_tree.tree.root_assemblies :
            LET part == parts_data.parts.parts_list[k]
                node == assembly_tree.tree.root_assemblies[i]
            IN  node.label_id = free[k] =>
                   /\ part.name = node.name
                   /\ part.shape_analysis = node.shape_info
                   /\ part.color_data = node.color_info

\* ------------------------------------------------------------------- C18
\* C18: the kernel document is opened once per input file and closed before
\* the next file is processed: at no point of a multi-file run has a document
\* that received the transfer of one file been used to transfer another, so
\* the processor's document never holds more than one file.
C18_OneFilePerDocument == Len(doc_files) <= 1

\* ------------------------------------------------------------------- C19
\* The messages that record a missing binding: the explicit one and that of the
\* failed import.
Unavailability == {"OpenCASCADE not available", "No module named 'OCC'"}

RecordsUnavailability(d) ==
    \E key \in {"extraction_error", "opencascade_error"} :
        key \in DOMAIN d /\ d[key] \in Unavailability

\* C19: when the kernel binding is unavailable, every kernel-dependent
\* operation (tree walk, part list, colour extraction, geometry analysis, the
\* kernel coordinator and the extraction of a file) ends without raising and
\* its result carries an extraction_error or opencascade_error field that
\* records the unavailability, whatever the kernel would have answered: no
\* kernel call is made.
C19_UnavailableBindingIsReported ==
    ~binding =>
        /\ RecordsUnavailability(extract_assembly_tree)
        /\ RecordsUnavailability(extract_all_parts)
        /\ RecordsUnavailability(extract_all_colors)
        /\ RecordsUnavailability(analyze_all_geometry)
        /\ \A f \in DOMAIN files :
              RecordsUnavailability(extract_with_opencascade(f, Extracted))
        /\ \A k \in DOMAIN results :
              /\ ~Raises(results[k].file, "os_stat") => ~results[k].raised
              /\ ~results[k].raised =>
                    \/ RecordsUnavailability(results[k].stp_data)
                    \/ RecordsUnavailability(results[k].stp_data.extraction_info)
                    \/ RecordsUnavailability(results[k].stp_data.assembly_structure)
                    \/ RecordsUnavailability(results[k].stp_data.part_data)
                    \/ RecordsUnavailability(results[k].stp_data.colors)
                    \/ RecordsUnavailability(results[k].stp_data.geometry_analysis)

\* ------------------------------------------------------------------- C20
\* The files whose kernel read or transfer fails.
ReadFailed(f) == opencascade_available /\ ReadAndTransfer(f) # ""

\* A document-level error field that carries the message.
Surfaces(stp_data, message) ==
    \/ \E key \in {"extraction_error", "opencascade_error"} :
          key \in DOMAIN stp_data /\ stp_data[key] = message
    \/ /\ "extraction_error" \in DOMAIN stp_data.extraction_info
       /\ stp_data.extraction_info.extraction_error = message

\* C20: when the kernel read or transfer of a file fails, the kernel
\* coordinator returns an otherwise empty result with the error, and the result
\* the caller of the extraction receives carries that error in a document-level
\* field, has no assembly tree and no parts, and does not report the run as
\* error-free.
C20_ReadFailureSurfaces ==
    /\ \A f \in DOMAIN files :
          ReadFailed(f) =>
             extract_with_opencascade(f, Extracted) =
                OpenCASCADEData @@ ("opencascade_error" :> ReadAndTransfer(f))
    /\ \A k \in DOMAIN results :
          (~results[k].raised /\ ReadFailed(results[k].file)) =>
             /\ Surfaces(results[k].stp_data, ReadAndTransfer(results[k].file))
             /\ results[k].stp_data.assembly_structure = EmptyDict
             /\ results[k].stp_data.part_data = EmptyDict
             /\ ~results[k].stp_data.extraction_statistics.extraction_success

\* ------------------------------------------------------------------- C21
\* The name of a label comes from its name attribute (lines 236-243).
AttributeBacked(label) ==
    /\ ~Raises(label, "FindAttribute_Name")
    /\ nameAttr[label] # NoAttr
    /\ nameAttr[label][1] # ""

RECURSIVE Structure(_)
\* A node without its fallback-synthesized names.
Structure(node) ==
    [node EXCEPT !.name = IF AttributeBacked(node.label_id) THEN @ ELSE "",
                 !.children = [k \in DOMAIN @ |-> Structure(@[k])]]

TreeStructure(tree) ==
    IF "root_assemblies" \in DOMAIN tree
    THEN [tree EXCEPT !.root_assemblies = [i \in DOMAIN @ |-> Structure(@[i])]]
    ELSE tree

\* C21: running the tree walk again on the unmodified document, with
\* unmodified kernel state, yields a structurally identical result: the same
\* nodes in the same child order with the same levels, types, attribute-backed
\* names and contents, and the same hierarchy_depth; only fallback-synthesized
\* names may differ.
C21_WalkIsRepeatable ==
    (assembly_tree.done /\ tree_again.done) =>
        TreeStructure(tree_again.tree) = TreeStructure(assembly_tree.tree)

\* A second walk under another hash seed gave a tree with other fallback names.
C21_Witness ==
    /\ assembly_tree.done /\ tree_again.done
    /\ "root_assemblies" \in DOMAIN tree_again.tree
    /\ tree_again.tree # assembly_tree.tree
    /\ \E i \in DOMAIN tree_again.tree.root_assemblies :
          tree_again.tree.root_assemblies[i].children # <<>>

\* ------------------------------------------------------------------- C22
\* What a fresh processor extracts from file f alone: file f holds one shape,
\* label f, so one free shape, one root node (that of label f), one part
\* record and one shape in the geometry totals.
OnlyShapesOf(stp_data, f) ==
    /\ "total_free_shapes" \in DOMAIN stp_data.assembly_structure =>
          /\ stp_data.assembly_structure.total_free_shapes = 1
          /\ \A i \in DOMAIN stp_data.assembly_structure.root_assemblies :
                stp_data.assembly_structure.root_assemblies[i].label_id = f
    /\ "parts_list" \in DOMAIN stp_data.part_data =>
          /\ stp_data.part_data.total_parts = 1
          /\ Len(stp_data.part_data.parts_list) = 1
    /\ "overall_statistics" \in DOMAIN stp_data.geometry_analysis =>
          stp_data.geometry_analysis.overall_statistics.total_shapes = 1

\* C22: when one processor handles several files in sequence, the result for
\* the k-th file (free shapes, root nodes, part list, geometry totals) holds
\* only the shapes of the k-th file, as if a fresh processor had processed it
\* alone: no shape of an earlier file is carried over.
C22_ResultHoldsOnlyItsFile ==
    \A k \in DOMAIN results :
        ~results[k].raised => OnlyShapesOf(results[k].stp_data, results[k].file)

\* ------------------------------------------------------------------- C23
\* The errors recorded while file f is processed (main_extractor.py lines 79
\* and 101): the kernel coordinator raises nothing, so only a failure of the
\* save of line 93 is recorded.
OwnErrors(f) ==
    IF Raises(f, "save_dynamic_output") THEN <<"save_dynamic_output">> ELSE <<>>

\* C23: the extraction_statistics returned for a file reflect only that file:
\* error_list holds the errors recorded while that file was processed,
\* errors_encountered counts none but these, and a file processed without any
\* error reports extraction_success, whatever happened to the files the same
\* MainExtractor processed before.
C23_StatisticsArePerFile ==
    \A k \in DOMAIN results :
        ~results[k].raised =>
            LET stats == results[k].stp_data.extraction_statistics
                own == OwnErrors(results[k].file)
            IN  /\ stats.error_list = own
                /\ stats.errors_encountered <= Len(own)
                /\ own = <<>> => stats.extraction_success

\* ------------------------------------------------------------------- C24
\* C24: in every tree the walk builds, a node of type "part" has an empty
\* children list, children are non-empty only for nodes of type "assembly",
\* and a node's type is "assembly" exactly when the kernel reports its label
\* as not a simple shape.
C24_OnlyAssembliesHaveChildren ==
    HasTree =>
        \A node \in TreeNodes :
            /\ node.type \in {"assembly", "part"}
            /\ node.type = "part" => node.children = <<>>
            /\ node.children # <<>> => node.type = "assembly"
            /\ node.type = "assembly" <=> ~simple[node.label_id]

\* A tree with an assembly that has a part among its children, and an
\* assembly without children.
C24_Witness ==
    /\ HasTree
    /\ \E node \in TreeNodes :
          /\ node.type = "assembly"
          /\ \E j \in DOMAIN node.children : node.children[j].type = "part"
    /\ \E node \in TreeNodes : node.type = "assembly" /\ node.children = <<>>

\* ------------------------------------------------------------------- C25
RECURSIVE Occurrences(_)
\* The occurrences of labels below and at a label: one per path of components
\* that starts at it.
Occurrences(label) ==
    [label_id |-> label,
     children |-> [k \in DOMAIN comps[label] |-> Occurrences(comps[label][k])]]

RECURSIVE Visited(_)
\* The labels a subtree of the result visited, in the order of the visit.
Visited(node) ==
    [label_id |-> node.label_id,
     children |-> [k \in DOMAIN node.children |-> Visited(node.children[k])]]

\* C25: for every finite acyclic label hierarchy the walk ends with a result,
\* and when no kernel call fails the result is a tree with exactly one node
\* per label occurrence reachable from the free shapes: every label is
\* visited once per path from a root, in the kernel's order, none skipped and
\* none visited twice.
C25_OneNodePerOccurrence ==
    (assembly_tree.done /\ raises = {}) =>
        /\ HasTree
        /\ assembly_tree.tree.total_free_shapes = Len(free)
        /\ [i \in DOMAIN assembly_tree.tree.root_assemblies |->
               Visited(assembly_tree.tree.root_assemblies[i])]
           = [i \in DOMAIN free |-> Occurrences(free[i])]

\* A walk without failures over a hierarchy in which a label is reached on
\* two paths, one of them two levels deep.
C25_Witness ==
    /\ HasTree /\ raises = {}
    /\ \E a, b \in TreeNodes :
          /\ a.label_id = b.label_id
          /\ a.level = 1 /\ b.level = 2

\* ------------------------------------------------------------------- C26
\* C26: in the ColorData extract_all_colors returns, total_colors equals the
\* number of entries of color_assignments: a label found by the colour-tool
\* pass and by the free-shape pass is counted once, and a label is counted
\* only when a colour was resolved for it.
C26_TotalColorsCountsAssignments ==
    color_data.done =>
        /\ color_data.colors.total_colors =
              Cardinality(DOMAIN color_data.colors.color_assignments)
        /\ \A label \in DOMAIN color_data.colors.color_assignments :
              ~NoColorUnderAnyRole(label)

\* The free shape has a general colour that the role-less lookup finds as
\* well: both passes find it, and it is counted.
C26_Witness ==
    /\ color_data.done
    /\ "extraction_error" \notin DOMAIN color_data.colors
    /\ \E i \in DOMAIN free :
          /\ roleColor[free[i]]["general"] # NoColor
          /\ labelColor[free[i]] # NoColor
          /\ free[i] \in DOMAIN color_data.colors.color_assignments
    /\ color_data.colors.total_colors = 1

\* ------------------------------------------------------------------- C27
\* The run of main has ended: the loop is past the last file, or an exception
\* left it.
RunEnded == main_raised \/ next_file > Len(files)

\* C27: main attempts the extraction exactly once for every file found, in
\* the order found: a failure or exception while one file is processed does
\* not keep any later file from being processed, and the run ends only after
\* the last file.
C27_EveryFileIsAttempted ==
    /\ \A k \in DOMAIN results : results[k].file = k
    /\ Len(results) = next_file - 1
    /\ RunEnded => Len(results) = Len(files)

====
